---- MODULE Spec2Model ----
(***************************************************************************)
(* Model of components/library/src/content/ser.rs: the projection of       *)
(* pages and sections of a Library into the serializable records handed    *)
(* to the templates (TranslatedContent, SerializingPage,                   *)
(* SerializingSection).                                                    *)
(*                                                                         *)
(* Option<T> is a sequence of length at most one: None is <<>> and         *)
(* Some(x) is <<x>>.  A call either returns a value or panics (unwrap on a *)
(* missing key); every call is modelled by a record                        *)
(*   [ok |-> BOOLEAN, val |-> the returned value, log |-> lookups made]    *)
(* where log is the sequence of library lookups the call performed, in     *)
(* order, up to and including the one that panicked.                       *)
(***************************************************************************)
EXTENDS Integers, Sequences, FiniteSets, TLC

VARIABLES library, op, arg, lib_arg, result

vars == <<library, op, arg, lib_arg, result>>

(*************************** bounds of the model ***************************)
MaxPages == 2
MaxSections == 2
MaxNavSet == 2
MaxList == 2
MaxGroup == 2

(***************************** Option, results *****************************)
None == <<>>
Some(x) == <<x>>

Ok(v, l) == [ok |-> TRUE, val |-> v, log |-> l]
Panic(l) == [ok |-> FALSE, val |-> <<>>, log |-> l]

RECURSIVE LogUntilPanic(_)
\* the lookups of a sequence of calls made one after the other, the calls
\* after the first panicking one not being made
LogUntilPanic(rs) ==
    IF rs = <<>> THEN <<>>
    ELSE IF ~Head(rs).ok THEN Head(rs).log
    ELSE Head(rs).log \o LogUntilPanic(Tail(rs))

AllOk(rs) == \A i \in 1..Len(rs) : rs[i].ok

(***************************** the navigation ******************************)
Slots == {"lighter", "heavier", "earlier_updated", "later_updated",
          "earlier", "later", "title_prev", "title_next"}

(******************************* the Library *******************************)
\* Library::pages(): the slot map of the pages; get is None on a missing key
pages_get(lib, k) ==
    IF k \in DOMAIN lib.pages THEN Some(lib.pages[k]) ELSE None

get_page_by_key(lib, k) ==
    IF k \in DOMAIN lib.pages
    THEN Ok(lib.pages[k], << <<"get_page_by_key", k>> >>)
    ELSE Panic(<< <<"get_page_by_key", k>> >>)

get_section_by_key(lib, k) ==
    IF k \in DOMAIN lib.sections
    THEN Ok(lib.sections[k], << <<"get_section_by_key", k>> >>)
    ELSE Panic(<< <<"get_section_by_key", k>> >>)

get_section_path_by_key(lib, k) ==
    IF k \in DOMAIN lib.sections
    THEN Ok(lib.sections[k].file.relative, << <<"get_section_path_by_key", k>> >>)
    ELSE Panic(<< <<"get_section_path_by_key", k>> >>)

\* library.translations.get(canonical).or(Some(&HashSet::new())).unwrap().iter():
\* the keys of the group in the iteration order of the set, none without a group
translations_iter(lib, canonical) ==
    IF canonical \in DOMAIN lib.translations
    THEN lib.translations[canonical]
    ELSE <<>>

(*************************** TranslatedContent *****************************)
TranslatedContentOf(other) ==
    [lang |-> other.lang,
     permalink |-> other.permalink,
     title |-> other.meta.title,
     path |-> other.file.path]

RECURSIVE push_sections(_, _)
push_sections(keys, lib) ==
    IF keys = <<>> THEN Ok(<<>>, <<>>)
    ELSE LET other == get_section_by_key(lib, Head(keys))
         IN  IF ~other.ok THEN Panic(other.log)
             ELSE LET rest == push_sections(Tail(keys), lib)
                  IN  IF ~rest.ok THEN Panic(other.log \o rest.log)
                      ELSE Ok(<<TranslatedContentOf(other.val)>> \o rest.val,
                              other.log \o rest.log)

find_all_sections(section, lib) ==
    LET r == push_sections(translations_iter(lib, section.file.canonical), lib)
        l == << <<"translations.get", section.file.canonical>> >> \o r.log
    IN  IF r.ok THEN Ok(r.val, l) ELSE Panic(l)

RECURSIVE push_pages(_, _)
push_pages(keys, lib) ==
    IF keys = <<>> THEN Ok(<<>>, <<>>)
    ELSE LET other == get_page_by_key(lib, Head(keys))
         IN  IF ~other.ok THEN Panic(other.log)
             ELSE LET rest == push_pages(Tail(keys), lib)
                  IN  IF ~rest.ok THEN Panic(other.log \o rest.log)
                      ELSE Ok(<<TranslatedContentOf(other.val)>> \o rest.val,
                              other.log \o rest.log)

\* find_all_pages, but the group is unwrapped without the fallback to an empty set
find_all_pages_unwrap(page, lib) ==
    LET r == push_pages(translations_iter(lib, page.file.canonical), lib)
        l == << <<"translations.get", page.file.canonical>> >> \o r.log
    IN  IF page.file.canonical \notin DOMAIN lib.translations
        THEN Panic(<< <<"translations.get", page.file.canonical>> >>)
        ELSE IF r.ok THEN Ok(r.val, l) ELSE Panic(l)

find_all_pages(page, lib) ==
    LET r == push_pages(translations_iter(lib, page.file.canonical), lib)
        l == << <<"translations.get", page.file.canonical>> >> \o r.log
    IN  IF r.ok THEN Ok(r.val, l) ELSE Panic(l)

(***************************** SerializingPage *****************************)
RECURSIVE ancestors_relative(_, _)
\* keys.iter().map(|k| lib.get_section_by_key(*k).file.relative.as_str()).collect()
ancestors_relative(keys, lib) ==
    IF keys = <<>> THEN Ok(<<>>, <<>>)
    ELSE LET s == get_section_by_key(lib, Head(keys))
         IN  IF ~s.ok THEN Panic(s.log)
             ELSE LET rest == ancestors_relative(Tail(keys), lib)
                  IN  IF ~rest.ok THEN Panic(s.log \o rest.log)
                      ELSE Ok(<<s.val.file.relative>> \o rest.val, s.log \o rest.log)

year_of(page) ==
    IF page.meta.datetime_tuple = None THEN None
    ELSE Some(page.meta.datetime_tuple[1][1])

month_of(page) ==
    IF page.meta.datetime_tuple = None THEN None
    ELSE Some(page.meta.datetime_tuple[1][2])

day_of(page) ==
    IF page.meta.datetime_tuple = None THEN None
    ELSE Some(page.meta.datetime_tuple[1][3])

\* Same as from_page but does not fill sibling pages
from_page_basic(page, library_opt) ==
    LET ancestors == IF library_opt # None
                     THEN ancestors_relative(page.ancestors, library_opt[1])
                     ELSE Ok(<<>>, <<>>)
        translations == IF library_opt # None
                        THEN find_all_pages(page, library_opt[1])
                        ELSE Ok(<<>>, <<>>)
        steps == <<ancestors, translations>>
    IN  IF ~AllOk(steps) THEN Panic(LogUntilPanic(steps))
        ELSE Ok([relative_path |-> page.file.relative,
                 ancestors |-> ancestors.val,
                 content |-> page.content,
                 permalink |-> page.permalink,
                 slug |-> page.slug,
                 title |-> page.meta.title,
                 description |-> page.meta.description,
                 extra |-> page.meta.extra,
                 updated |-> page.meta.updated,
                 date |-> page.meta.date,
                 year |-> year_of(page),
                 month |-> month_of(page),
                 day |-> day_of(page),
                 taxonomies |-> page.meta.taxonomies,
                 path |-> page.path,
                 components |-> page.components,
                 summary |-> page.summary,
                 toc |-> page.toc,
                 word_count |-> page.word_count,
                 reading_time |-> page.reading_time,
                 assets |-> page.serialized_assets,
                 draft |-> page.meta.draft,
                 lang |-> page.lang,
                 lighter |-> None,
                 heavier |-> None,
                 earlier_updated |-> None,
                 later_updated |-> None,
                 earlier |-> None,
                 later |-> None,
                 title_prev |-> None,
                 title_next |-> None,
                 translations |-> translations.val],
                LogUntilPanic(steps))

\* sibling, but the sibling is projected without the library
sibling_detached(ptr, lib) ==
    IF ptr = None THEN Ok(None, <<>>)
    ELSE LET l == << <<"pages.get", ptr[1]>> >>
             p == pages_get(lib, ptr[1])
         IN  IF p = None THEN Panic(l)
             ELSE LET b == from_page_basic(p[1], None)
                  IN  IF ~b.ok THEN Panic(l \o b.log)
                      ELSE Ok(Some(b.val), l \o b.log)

\* sibling, but the pointer "later" of the sibling is followed one page further
sibling_chasing(ptr, lib) ==
    IF ptr = None THEN Ok(None, <<>>)
    ELSE LET l == << <<"pages.get", ptr[1]>> >>
             p == pages_get(lib, ptr[1])
         IN  IF p = None THEN Panic(l)
             ELSE LET b == from_page_basic(p[1], Some(lib))
                      n == IF p[1].later = None THEN None
                           ELSE pages_get(lib, p[1].later[1])
                      c == IF n = None THEN Ok(None, <<>>)
                           ELSE from_page_basic(n[1], Some(lib))
                      m == IF p[1].later = None THEN <<>>
                           ELSE << <<"pages.get", p[1].later[1]>> >>
                  IN  IF ~b.ok THEN Panic(l \o b.log)
                      ELSE IF ~c.ok THEN Panic(l \o b.log \o m \o c.log)
                      ELSE IF n = None THEN Ok(Some(b.val), l \o b.log \o m)
                      ELSE Ok(Some([b.val EXCEPT !.later = Some(c.val)]),
                              l \o b.log \o m \o c.log)

\* sibling, but a pointer to a key the library does not hold is left out
sibling_lenient(ptr, lib) ==
    IF ptr = None THEN Ok(None, <<>>)
    ELSE LET l == << <<"pages.get", ptr[1]>> >>
             p == pages_get(lib, ptr[1])
         IN  IF p = None THEN Ok(None, l)
             ELSE LET b == from_page_basic(p[1], Some(lib))
                  IN  IF ~b.ok THEN Panic(l \o b.log)
                      ELSE Ok(Some(b.val), l \o b.log)

\* ptr.map(|k| Box::new(Self::from_page_basic(pages.get(k).unwrap(), Some(library))))
sibling(ptr, lib) ==
    IF ptr = None THEN Ok(None, <<>>)
    ELSE LET l == << <<"pages.get", ptr[1]>> >>
             p == pages_get(lib, ptr[1])
         IN  IF p = None THEN Panic(l)
             ELSE LET b == from_page_basic(p[1], Some(lib))
                  IN  IF ~b.ok THEN Panic(l \o b.log)
                      ELSE Ok(Some(b.val), l \o b.log)

\* from_page, but the translations are not looked up
from_page_untranslated(page, lib) ==
    LET lighter == sibling(page.lighter, lib)
        heavier == sibling(page.heavier, lib)
        earlier_updated == sibling(page.earlier_updated, lib)
        later_updated == sibling(page.later_updated, lib)
        earlier == sibling(page.earlier, lib)
        later == sibling(page.later, lib)
        title_prev == sibling(page.title_prev, lib)
        title_next == sibling(page.title_next, lib)
        ancestors == ancestors_relative(page.ancestors, lib)
        translations == Ok(<<>>, <<>>)
        steps == <<lighter, heavier, earlier_updated, later_updated, earlier,
                   later, title_prev, title_next, ancestors, translations>>
    IN  IF ~AllOk(steps) THEN Panic(LogUntilPanic(steps))
        ELSE Ok([relative_path |-> page.file.relative,
                 ancestors |-> ancestors.val,
                 content |-> page.content,
                 permalink |-> page.permalink,
                 slug |-> page.slug,
                 title |-> page.meta.title,
                 description |-> page.meta.description,
                 extra |-> page.meta.extra,
                 updated |-> page.meta.updated,
                 date |-> page.meta.date,
                 year |-> year_of(page),
                 month |-> month_of(page),
                 day |-> day_of(page),
                 taxonomies |-> page.meta.taxonomies,
                 path |-> page.path,
                 components |-> page.components,
                 summary |-> page.summary,
                 toc |-> page.toc,
                 word_count |-> page.word_count,
                 reading_time |-> page.reading_time,
                 assets |-> page.serialized_assets,
                 draft |-> page.meta.draft,
                 lang |-> page.lang,
                 lighter |-> lighter.val,
                 heavier |-> heavier.val,
                 earlier_updated |-> earlier_updated.val,
                 later_updated |-> later_updated.val,
                 earlier |-> earlier.val,
                 later |-> later.val,
                 title_prev |-> title_prev.val,
                 title_next |-> title_next.val,
                 translations |-> translations.val],
                LogUntilPanic(steps))

\* Grabs all the data from a page, including sibling pages
from_page(page, lib) ==
    LET lighter == sibling(page.lighter, lib)
        heavier == sibling(page.heavier, lib)
        earlier_updated == sibling(page.earlier_updated, lib)
        later_updated == sibling(page.later_updated, lib)
        earlier == sibling(page.earlier, lib)
        later == sibling(page.later, lib)
        title_prev == sibling(page.title_prev, lib)
        title_next == sibling(page.title_next, lib)
        ancestors == ancestors_relative(page.ancestors, lib)
        translations == find_all_pages(page, lib)
        steps == <<lighter, heavier, earlier_updated, later_updated, earlier,
                   later, title_prev, title_next, ancestors, translations>>
    IN  IF ~AllOk(steps) THEN Panic(LogUntilPanic(steps))
        ELSE Ok([relative_path |-> page.file.relative,
                 ancestors |-> ancestors.val,
                 content |-> page.content,
                 permalink |-> page.permalink,
                 slug |-> page.slug,
                 title |-> page.meta.title,
                 description |-> page.meta.description,
                 extra |-> page.meta.extra,
                 updated |-> page.meta.updated,
                 date |-> page.meta.date,
                 year |-> year_of(page),
                 month |-> month_of(page),
                 day |-> day_of(page),
                 taxonomies |-> page.meta.taxonomies,
                 path |-> page.path,
                 components |-> page.components,
                 summary |-> page.summary,
                 toc |-> page.toc,
                 word_count |-> page.word_count,
                 reading_time |-> page.reading_time,
                 assets |-> page.serialized_assets,
                 draft |-> page.meta.draft,
                 lang |-> page.lang,
                 lighter |-> lighter.val,
                 heavier |-> heavier.val,
                 earlier_updated |-> earlier_updated.val,
                 later_updated |-> later_updated.val,
                 earlier |-> earlier.val,
                 later |-> later.val,
                 title_prev |-> title_prev.val,
                 title_next |-> title_next.val,
                 translations |-> translations.val],
                LogUntilPanic(steps))

(**************************** SerializingSection ***************************)
\* Page::to_serialized_basic(library)
to_serialized_basic(page, lib) == from_page_basic(page, Some(lib))

RECURSIVE push_child_pages_full(_, _)
\* push_child_pages, but with the full view (to_serialized) of each child page
push_child_pages_full(keys, lib) ==
    IF keys = <<>> THEN Ok(<<>>, <<>>)
    ELSE LET p == get_page_by_key(lib, Head(keys))
         IN  IF ~p.ok THEN Panic(p.log)
             ELSE LET b == from_page(p.val, lib)
                  IN  IF ~b.ok THEN Panic(p.log \o b.log)
                      ELSE LET rest == push_child_pages_full(Tail(keys), lib)
                           IN  IF ~rest.ok THEN Panic(p.log \o b.log \o rest.log)
                               ELSE Ok(<<b.val>> \o rest.val,
                                       p.log \o b.log \o rest.log)

RECURSIVE push_child_pages(_, _)
\* for k in &section.pages { pages.push(get_page_by_key(*k).to_serialized_basic(library)) }
push_child_pages(keys, lib) ==
    IF keys = <<>> THEN Ok(<<>>, <<>>)
    ELSE LET p == get_page_by_key(lib, Head(keys))
         IN  IF ~p.ok THEN Panic(p.log)
             ELSE LET b == to_serialized_basic(p.val, lib)
                  IN  IF ~b.ok THEN Panic(p.log \o b.log)
                      ELSE LET rest == push_child_pages(Tail(keys), lib)
                           IN  IF ~rest.ok THEN Panic(p.log \o b.log \o rest.log)
                               ELSE Ok(<<b.val>> \o rest.val,
                                       p.log \o b.log \o rest.log)

RECURSIVE section_paths_reversed(_, _)
\* section_paths, but each path is put in front of those already pushed
section_paths_reversed(keys, lib) ==
    IF keys = <<>> THEN Ok(<<>>, <<>>)
    ELSE LET s == get_section_path_by_key(lib, Head(keys))
         IN  IF ~s.ok THEN Panic(s.log)
             ELSE LET rest == section_paths_reversed(Tail(keys), lib)
                  IN  IF ~rest.ok THEN Panic(s.log \o rest.log)
                      ELSE Ok(rest.val \o <<s.val>>, s.log \o rest.log)

RECURSIVE section_paths(_, _)
\* for k in keys { v.push(library.get_section_path_by_key(*k)) }
section_paths(keys, lib) ==
    IF keys = <<>> THEN Ok(<<>>, <<>>)
    ELSE LET s == get_section_path_by_key(lib, Head(keys))
         IN  IF ~s.ok THEN Panic(s.log)
             ELSE LET rest == section_paths(Tail(keys), lib)
                  IN  IF ~rest.ok THEN Panic(s.log \o rest.log)
                      ELSE Ok(<<s.val>> \o rest.val, s.log \o rest.log)

from_section(section, lib) ==
    LET pages == push_child_pages(section.pages, lib)
        subsections == section_paths(section.subsections, lib)
        includers == section_paths(section.includers, lib)
        ancestors == ancestors_relative(section.ancestors, lib)
        translations == find_all_sections(section, lib)
        steps == <<pages, subsections, includers, ancestors, translations>>
    IN  IF ~AllOk(steps) THEN Panic(LogUntilPanic(steps))
        ELSE Ok([relative_path |-> section.file.relative,
                 ancestors |-> ancestors.val,
                 draft |-> section.meta.draft,
                 content |-> section.content,
                 permalink |-> section.permalink,
                 title |-> section.meta.title,
                 description |-> section.meta.description,
                 extra |-> section.meta.extra,
                 path |-> section.path,
                 components |-> section.components,
                 toc |-> section.toc,
                 word_count |-> section.word_count,
                 reading_time |-> section.reading_time,
                 assets |-> section.serialized_assets,
                 lang |-> section.lang,
                 pages |-> pages.val,
                 subsections |-> subsections.val,
                 translations |-> translations.val,
                 includers |-> includers.val],
                LogUntilPanic(steps))

\* from_section_basic, but the subsections and the includers change places
from_section_basic_swapped(section, library_opt) ==
    LET ancestors == IF library_opt # None
                     THEN ancestors_relative(section.ancestors, library_opt[1])
                     ELSE Ok(<<>>, <<>>)
        translations == IF library_opt # None
                        THEN find_all_sections(section, library_opt[1])
                        ELSE Ok(<<>>, <<>>)
        subsections == IF library_opt # None
                       THEN section_paths(section.subsections, library_opt[1])
                       ELSE Ok(<<>>, <<>>)
        includers == IF library_opt # None
                     THEN section_paths(section.includers, library_opt[1])
                     ELSE Ok(<<>>, <<>>)
        steps == <<ancestors, translations, subsections, includers>>
    IN  IF ~AllOk(steps) THEN Panic(LogUntilPanic(steps))
        ELSE Ok([relative_path |-> section.file.relative,
                 ancestors |-> ancestors.val,
                 draft |-> section.meta.draft,
                 content |-> section.content,
                 permalink |-> section.permalink,
                 title |-> section.meta.title,
                 description |-> section.meta.description,
                 extra |-> section.meta.extra,
                 path |-> section.path,
                 components |-> section.components,
                 toc |-> section.toc,
                 word_count |-> section.word_count,
                 reading_time |-> section.reading_time,
                 assets |-> section.serialized_assets,
                 lang |-> section.lang,
                 pages |-> <<>>,
                 subsections |-> includers.val,
                 translations |-> translations.val,
                 includers |-> subsections.val],
                LogUntilPanic(steps))

\* Same as from_section but doesn't fetch pages
from_section_basic(section, library_opt) ==
    LET ancestors == IF library_opt # None
                     THEN ancestors_relative(section.ancestors, library_opt[1])
                     ELSE Ok(<<>>, <<>>)
        translations == IF library_opt # None
                        THEN find_all_sections(section, library_opt[1])
                        ELSE Ok(<<>>, <<>>)
        subsections == IF library_opt # None
                       THEN section_paths(section.subsections, library_opt[1])
                       ELSE Ok(<<>>, <<>>)
        includers == IF library_opt # None
                     THEN section_paths(section.includers, library_opt[1])
                     ELSE Ok(<<>>, <<>>)
        steps == <<ancestors, translations, subsections, includers>>
    IN  IF ~AllOk(steps) THEN Panic(LogUntilPanic(steps))
        ELSE Ok([relative_path |-> section.file.relative,
                 ancestors |-> ancestors.val,
                 draft |-> section.meta.draft,
                 content |-> section.content,
                 permalink |-> section.permalink,
                 title |-> section.meta.title,
                 description |-> section.meta.description,
                 extra |-> section.meta.extra,
                 path |-> section.path,
                 components |-> section.components,
                 toc |-> section.toc,
                 word_count |-> section.word_count,
                 reading_time |-> section.reading_time,
                 assets |-> section.serialized_assets,
                 lang |-> section.lang,
                 pages |-> <<>>,
                 subsections |-> subsections.val,
                 translations |-> translations.val,
                 includers |-> includers.val],
                LogUntilPanic(steps))

(************************* the content of a Library ************************)
PageKeys == 1..MaxPages
SectionKeys == 1..MaxSections
\* the keys a stored reference may hold: those of the library and one stale key
AnyPageKey == 1..(MaxPages + 1)
AnySectionKey == 1..(MaxSections + 1)

LangOf(k) == IF k = 1 THEN "en" ELSE IF k = 2 THEN "fr" ELSE "de"

AllNone == [s \in Slots |-> None]

\* the sequences without repetition over S of length at most n
DistinctSeqs(S, n) ==
    UNION {{q \in [1..m -> S] : \A i, j \in 1..m : i # j => q[i] # q[j]} : m \in 0..n}

\* the assignments of the eight pointers with at most n of them set, to keys of T
NavUpTo(T, n) ==
    UNION {{[s \in Slots |-> IF s \in X THEN Some(t[s]) ELSE None] : t \in [X -> T]} :
           X \in {Y \in SUBSET Slots : Cardinality(Y) <= n}}

Page(k, canonical, nav, ancestors) ==
    [file |-> [path |-> <<"content/post.md", LangOf(k), k>>,
               relative |-> <<"post.md", LangOf(k), k>>,
               canonical |-> canonical],
     lang |-> LangOf(k),
     permalink |-> <<"https://example.com/post/", k>>,
     slug |-> <<"post", k>>,
     content |-> <<"<p>page</p>", k>>,
     path |-> <<"/post/", k>>,
     meta |-> [title |-> IF k % 2 = 1 THEN Some(<<"Post", k>>) ELSE None,
               description |-> IF k % 2 = 1 THEN None ELSE Some(<<"about", k>>),
               updated |-> IF k % 2 = 1 THEN Some("2024-04-01") ELSE None,
               date |-> IF k % 2 = 1 THEN Some("2024-03-15") ELSE None,
               datetime_tuple |-> IF k % 2 = 1 THEN Some(<<2024, 3, 14 + k>>) ELSE None,
               draft |-> k % 2 = 0,
               extra |-> <<"extra", k>>,
               taxonomies |-> <<"tags", k>>],
     components |-> <<"component", k>>,
     summary |-> IF k % 2 = 1 THEN Some(<<"summary", k>>) ELSE None,
     toc |-> <<"heading", k>>,
     word_count |-> Some(100 + k),
     reading_time |-> Some(k),
     serialized_assets |-> <<"asset.png", k>>,
     lighter |-> nav["lighter"],
     heavier |-> nav["heavier"],
     earlier_updated |-> nav["earlier_updated"],
     later_updated |-> nav["later_updated"],
     earlier |-> nav["earlier"],
     later |-> nav["later"],
     title_prev |-> nav["title_prev"],
     title_next |-> nav["title_next"],
     ancestors |-> ancestors]

Section(k, canonical, pages, subsections, includers, ancestors) ==
    [file |-> [path |-> <<"content/_index.md", LangOf(k), k>>,
               relative |-> <<"_index.md", LangOf(k), k>>,
               canonical |-> canonical],
     lang |-> LangOf(k),
     permalink |-> <<"https://example.com/section/", k>>,
     content |-> <<"<p>section</p>", k>>,
     path |-> <<"/section/", k>>,
     meta |-> [title |-> IF k % 2 = 1 THEN Some(<<"Section", k>>) ELSE None,
               description |-> IF k % 2 = 1 THEN None ELSE Some(<<"about", k>>),
               draft |-> k % 2 = 0,
               extra |-> <<"extra", k>>],
     components |-> <<"component", k>>,
     toc |-> <<"heading", k>>,
     word_count |-> Some(200 + k),
     reading_time |-> Some(k),
     serialized_assets |-> <<"asset.png", k>>,
     pages |-> pages,
     subsections |-> subsections,
     includers |-> includers,
     ancestors |-> ancestors]

(***************************************************************************)
(* The libraries the projections are applied to.  A library is described   *)
(* by the references of its first page and first section, the canonical    *)
(* path of the other entities and the two translation groups; the other    *)
(* pages point back at their predecessor and at themselves (so that the    *)
(* pointers form cycles), the other sections include and are included by   *)
(* the first one.                                                          *)
(***************************************************************************)
BackAndSelf(k) == [AllNone EXCEPT !["earlier"] = Some(k - 1), !["later"] = Some(k)]

Library(c) ==
    [pages |-> [k \in PageKeys |->
                  IF k = 1 THEN Page(k, "content/post", c.nav, c.page_ancestors)
                  ELSE Page(k, c.page_canonical, BackAndSelf(k), <<1>>)],
     sections |-> [k \in SectionKeys |->
                  IF k = 1
                  THEN Section(k, "content/_index", c.pages, c.subsections,
                               c.includers, c.section_ancestors)
                  ELSE Section(k, c.section_canonical, <<k>>, <<>>, <<1>>, <<1>>)],
     translations |->
        [p \in {"content/post" : x \in {1} \cap DOMAIN c.page_group}
               \cup {"content/_index" : x \in {1} \cap DOMAIN c.section_group} |->
           IF p = "content/post" THEN c.page_group[1] ELSE c.section_group[1]]]

Plain ==
    [nav |-> [AllNone EXCEPT !["later"] = Some(2)],
     page_ancestors |-> <<1>>,
     page_canonical |-> "content/post",
     page_group |-> Some(<<2, 1>>),
     pages |-> <<1, 2>>,
     subsections |-> <<2>>,
     includers |-> <<2>>,
     section_ancestors |-> <<>>,
     section_canonical |-> "content/_index",
     section_group |-> Some(<<1, 2>>)]

Untranslated == [Plain EXCEPT !.page_group = None, !.section_group = None]

Groups(S) == {None} \cup {Some(g) : g \in DistinctSeqs(S, MaxGroup)}

\* Each library changes one part of Plain or of Untranslated: the pointers of
\* the first page (at most MaxNavSet of them set, to any key, or all eight
\* set to keys of the library), its ancestors, the child pages and
\* subsections of the first section, its includers and ancestors, and either
\* translation group together with the canonical path of the other entities.
Configs ==
    {[Plain EXCEPT !.nav = [s \in Slots |-> Some(t[s])]] : t \in [Slots -> PageKeys]}
    \cup UNION {
      {[b EXCEPT !.nav = n] : n \in NavUpTo(AnyPageKey, MaxNavSet)}
      \cup {[b EXCEPT !.page_ancestors = a] : a \in DistinctSeqs(AnySectionKey, MaxList)}
      \cup {[b EXCEPT !.pages = p, !.subsections = q] :
               p \in DistinctSeqs(AnyPageKey, MaxList),
               q \in DistinctSeqs(AnySectionKey, MaxList)}
      \cup {[b EXCEPT !.includers = p, !.section_ancestors = q] :
               p \in DistinctSeqs(AnySectionKey, MaxList),
               q \in DistinctSeqs(AnySectionKey, MaxList)}
      : b \in {Plain, Untranslated}}
    \cup {[Plain EXCEPT !.page_group = g, !.page_canonical = p] :
             g \in Groups(AnyPageKey), p \in {"content/post", "content/other"}}
    \cup {[Plain EXCEPT !.section_group = g, !.section_canonical = p] :
             g \in Groups(AnySectionKey), p \in {"content/_index", "content/blog/_index"}}

(******************************* the machine *******************************)
\* A behaviour draws a library and applies one projection to one of its
\* entities: the projections are pure and leave the library as it is, so a
\* second one would start from the same state.
Init ==
    /\ \E c \in Configs : library = Library(c)
    /\ op = "none"
    /\ arg = 0
    /\ lib_arg = FALSE
    /\ result = Ok(<<>>, <<>>)

FindAllPages(k) ==
    /\ op = "none"
    /\ op' = "find_all_pages"
    /\ arg' = k
    /\ lib_arg' = TRUE
    /\ result' = find_all_pages(library.pages[k], library)
    /\ UNCHANGED library

FindAllSections(k) ==
    /\ op = "none"
    /\ op' = "find_all_sections"
    /\ arg' = k
    /\ lib_arg' = TRUE
    /\ result' = find_all_sections(library.sections[k], library)
    /\ UNCHANGED library

FromPage(k) ==
    /\ op = "none"
    /\ op' = "from_page"
    /\ arg' = k
    /\ lib_arg' = TRUE
    /\ result' = from_page(library.pages[k], library)
    /\ UNCHANGED library

FromPageBasic(k, with_library) ==
    /\ op = "none"
    /\ op' = "from_page_basic"
    /\ arg' = k
    /\ lib_arg' = with_library
    /\ result' = from_page_basic(library.pages[k],
                                 IF with_library THEN Some(library) ELSE None)
    /\ UNCHANGED library

FromSection(k) ==
    /\ op = "none"
    /\ op' = "from_section"
    /\ arg' = k
    /\ lib_arg' = TRUE
    /\ result' = from_section(library.sections[k], library)
    /\ UNCHANGED library

FromSectionBasic(k, with_library) ==
    /\ op = "none"
    /\ op' = "from_section_basic"
    /\ arg' = k
    /\ lib_arg' = with_library
    /\ result' = from_section_basic(library.sections[k],
                                    IF with_library THEN Some(library) ELSE None)
    /\ UNCHANGED library

Next ==
    \/ \E k \in DOMAIN library.pages : FindAllPages(k)
    \/ \E k \in DOMAIN library.sections : FindAllSections(k)
    \/ \E k \in DOMAIN library.pages : FromPage(k)
    \/ \E k \in DOMAIN library.pages, w \in BOOLEAN : FromPageBasic(k, w)
    \/ \E k \in DOMAIN library.sections : FromSection(k)
    \/ \E k \in DOMAIN library.sections, w \in BOOLEAN : FromSectionBasic(k, w)

Spec == Init /\ [][Next]_vars

(****************************** the claims *********************************)
Range(q) == {q[i] : i \in DOMAIN q}

\* the pages or the sections, whichever the translations of the call are of
Entities == IF op \in {"find_all_pages", "from_page", "from_page_basic"}
            THEN library.pages ELSE library.sections

HasGroup(e) == e.file.canonical \in DOMAIN library.translations
GroupOf(e) == library.translations[e.file.canonical]

Resolved == /\ op \in {"find_all_pages", "find_all_sections"}
            /\ result.ok
            /\ HasGroup(Entities[arg])
            /\ arg \in Range(GroupOf(Entities[arg]))

RECURSIVE Without(_, _)
Without(q, k) ==
    IF q = <<>> THEN <<>>
    ELSE IF Head(q) = k THEN Without(Tail(q), k)
    ELSE <<Head(q)>> \o Without(Tail(q), k)

\* C1: the translations of an entity that is a member of its own translation
\* group never hold a reference whose path is the entity's own path.
C1_ExcludesSelf ==
    Resolved =>
        \A i \in DOMAIN result.val : result.val[i].path # Entities[arg].file.path

\* C2: for an entity of a group of N keys the translations have N-1 entries,
\* one for each other member key, in the iteration order of the group.
C2_AllButSelfInOrder ==
    Resolved =>
        LET others == Without(GroupOf(Entities[arg]), arg)
        IN  /\ Len(result.val) = Len(GroupOf(Entities[arg])) - 1
            /\ result.val = [i \in 1..Len(others) |-> TranslatedContentOf(Entities[others[i]])]

(************************ the claims about pages ***************************)
Root == library.pages[arg]
SetSlots(page) == {s \in Slots : page[s] # None}
NavAbsent(view) == \A s \in Slots : view[s] = None

RECURSIVE ViewDepth(_)
\* the number of levels of nested page views below a page view
ViewDepth(view) ==
    IF NavAbsent(view) THEN 0
    ELSE LET below == {ViewDepth(view[s][1]) : s \in SetSlots(view)}
         IN  1 + CHOOSE d \in below : \A e \in below : e <= d

RECURSIVE Count(_, _)
\* the number of lookups of the log that are of one of the kinds
Count(log, kinds) ==
    IF log = <<>> THEN 0
    ELSE (IF Head(log)[1] \in kinds THEN 1 ELSE 0) + Count(Tail(log), kinds)

\* C3: in from_page(P, library) the slot of a pointer set to K holds
\* from_page_basic(get_page(K), Some(library)), with its eight navigation
\* fields absent, and the slot of an unset pointer is absent.
C3_SlotsAreBasicViews ==
    (op = "from_page" /\ result.ok) =>
        \A s \in Slots :
            IF Root[s] = None THEN result.val[s] = None
            ELSE /\ result.val[s] =
                       Some(from_page_basic(library.pages[Root[s][1]], Some(library)).val)
                 /\ NavAbsent(result.val[s][1])

C3_Witness ==
    /\ op = "from_page"
    /\ result.ok
    /\ \E s \in Slots :
          /\ Root[s] # None
          /\ Root[s][1] # arg
          /\ SetSlots(library.pages[Root[s][1]]) # {}
          /\ result.val[s][1].translations # <<>>
          /\ result.val[s][1].ancestors # <<>>
    /\ SetSlots(Root) = Slots

\* C4: for a page with no navigation pointer set, from_page(P, library) is
\* from_page_basic(P, Some(library)), field for field, the navigation absent.
C4_FullIsBasicWithoutPointers ==
    (op = "from_page" /\ SetSlots(Root) = {}) =>
        LET basic == from_page_basic(Root, Some(library))
        IN  /\ result.ok = basic.ok
            /\ result.val = basic.val
            /\ result.ok => NavAbsent(result.val)

C4_Witness ==
    /\ op = "from_page"
    /\ SetSlots(Root) = {}
    /\ result.ok
    /\ result.val.ancestors # <<>>
    /\ result.val.translations # <<>>

\* C5, as stated: from_page returns a tree of depth at most one, pointers in
\* cycles or not, and the pages it dereferences are at most as many as the
\* pointers set in the root page.
C5_DepthAndPageDereferences ==
    op = "from_page" =>
        /\ result.ok => ViewDepth(result.val) <= 1
        /\ Count(result.log, {"pages.get", "get_page_by_key"})
              <= Cardinality(SetSlots(Root))

\* C5, amended: from_page returns a tree of depth at most one, pointers in
\* cycles or not; the pages it dereferences through navigation pointers are at
\* most as many as the pointers set in the root page (exactly as many when it
\* returns), every other page it dereferences being a member of the translation
\* group of the root page or of the page one of these pointers names.
C5_DepthAndPointerDereferences ==
    op = "from_page" =>
        /\ result.ok => /\ ViewDepth(result.val) <= 1
                        /\ Count(result.log, {"pages.get"}) = Cardinality(SetSlots(Root))
        /\ Count(result.log, {"pages.get"}) <= Cardinality(SetSlots(Root))
        /\ \A i \in DOMAIN result.log :
              /\ result.log[i][1] = "pages.get" =>
                    \E s \in Slots : Root[s] = Some(result.log[i][2])
              /\ result.log[i][1] = "get_page_by_key" =>
                    \E q \in {Root} \cup {library.pages[Root[s][1]] :
                                 s \in {t \in SetSlots(Root) : Root[t][1] \in DOMAIN library.pages}} :
                        /\ HasGroup(q)
                        /\ result.log[i][2] \in Range(GroupOf(q))

C5_Witness ==
    /\ op = "from_page"
    /\ result.ok
    /\ ViewDepth(result.val) = 1
    /\ \E s, t \in Slots :
          /\ Root[s] # None /\ Root[s][1] # arg
          /\ library.pages[Root[s][1]][t] = Some(arg)
    /\ \E s \in Slots : Root[s] = Some(arg)

(*********************** the claims about sections *************************)
RootSection == library.sections[arg]
PathsOf(keys) == [i \in 1..Len(keys) |-> library.sections[keys[i]].file.relative]
WithIndex == op = "from_section" \/ (op = "from_section_basic" /\ lib_arg)

\* C6, as stated: from_section and from_section_basic give the subsections
\* and the includers as path strings, one for each stored key in the stored
\* order, and never project another section, includers in a cycle or not.
C6_PathsForEveryKey ==
    (op \in {"from_section", "from_section_basic"} /\ result.ok) =>
        /\ result.val.subsections = PathsOf(RootSection.subsections)
        /\ result.val.includers = PathsOf(RootSection.includers)
        /\ Count(result.log, {"get_section_path_by_key"})
              = Len(RootSection.subsections) + Len(RootSection.includers)

\* C6, amended: from_section, and from_section_basic when it is given the
\* library, give the subsections and the includers as path strings, one for
\* each stored key in the stored order, and look up no section beyond these
\* keys, includers in a cycle or not; from_section_basic without the library
\* leaves both lists empty.
C6_PathsForEveryKeyWithIndex ==
    (op \in {"from_section", "from_section_basic"} /\ result.ok) =>
        IF WithIndex
        THEN /\ result.val.subsections = PathsOf(RootSection.subsections)
             /\ result.val.includers = PathsOf(RootSection.includers)
             /\ Count(result.log, {"get_section_path_by_key"})
                   = Len(RootSection.subsections) + Len(RootSection.includers)
        ELSE /\ result.val.subsections = <<>>
             /\ result.val.includers = <<>>

C6_Witness ==
    /\ op = "from_section"
    /\ result.ok
    /\ Len(result.val.subsections) = 2
    /\ RootSection.subsections[1] > RootSection.subsections[2]
    /\ \E k \in Range(RootSection.includers) :
          k # arg /\ arg \in Range(library.sections[k].includers)

(******************* the claims about broken references ********************)
Stored(keys, store) == \A k \in Range(keys) : k \in DOMAIN store
GroupStored(e, store) == HasGroup(e) => Stored(GroupOf(e), store)

BasicPresent(page) ==
    /\ Stored(page.ancestors, library.sections)
    /\ GroupStored(page, library.pages)

\* every key the call has to dereference is in the library
Present ==
    CASE op = "find_all_pages" -> GroupStored(Root, library.pages)
      [] op = "find_all_sections" -> GroupStored(RootSection, library.sections)
      [] op = "from_page" ->
            /\ BasicPresent(Root)
            /\ \A s \in SetSlots(Root) :
                  /\ Root[s][1] \in DOMAIN library.pages
                  /\ BasicPresent(library.pages[Root[s][1]])
      [] op = "from_page_basic" -> lib_arg => BasicPresent(Root)
      [] op = "from_section" ->
            /\ \A k \in Range(RootSection.pages) :
                  k \in DOMAIN library.pages /\ BasicPresent(library.pages[k])
            /\ Stored(RootSection.subsections, library.sections)
            /\ Stored(RootSection.includers, library.sections)
            /\ Stored(RootSection.ancestors, library.sections)
            /\ GroupStored(RootSection, library.sections)
      [] op = "from_section_basic" ->
            lib_arg => /\ Stored(RootSection.subsections, library.sections)
                       /\ Stored(RootSection.includers, library.sections)
                       /\ Stored(RootSection.ancestors, library.sections)
                       /\ GroupStored(RootSection, library.sections)
      [] OTHER -> TRUE

GroupLen(e) == IF HasGroup(e) THEN Len(GroupOf(e)) ELSE 0

\* every field of the view that is filled from the library is filled whole
Complete ==
    CASE op = "from_page" ->
            /\ Len(result.val.ancestors) = Len(Root.ancestors)
            /\ Len(result.val.translations) = GroupLen(Root)
            /\ SetSlots(result.val) = SetSlots(Root)
      [] op = "from_page_basic" ->
            lib_arg => /\ Len(result.val.ancestors) = Len(Root.ancestors)
                       /\ Len(result.val.translations) = GroupLen(Root)
      [] op = "from_section" ->
            /\ Len(result.val.pages) = Len(RootSection.pages)
            /\ Len(result.val.subsections) = Len(RootSection.subsections)
            /\ Len(result.val.includers) = Len(RootSection.includers)
            /\ Len(result.val.ancestors) = Len(RootSection.ancestors)
            /\ Len(result.val.translations) = GroupLen(RootSection)
      [] op = "from_section_basic" ->
            lib_arg => /\ Len(result.val.subsections) = Len(RootSection.subsections)
                       /\ Len(result.val.includers) = Len(RootSection.includers)
                       /\ Len(result.val.ancestors) = Len(RootSection.ancestors)
                       /\ Len(result.val.translations) = GroupLen(RootSection)
      [] OTHER -> TRUE

\* C7: a projection that has to dereference a key the library does not hold
\* panics and returns no view; one whose keys are all held returns a view
\* with every field filled.
C7_PanicsOrComplete ==
    op # "none" =>
        /\ result.ok <=> Present
        /\ ~result.ok => result.val = <<>>
        /\ result.ok => Complete

C7_Witness ==
    /\ op = "from_page"
    /\ ~result.ok
    /\ result.val = <<>>
    /\ Count(result.log, {"pages.get"}) = 2
    /\ Len(result.log) > 2

\* C8: for an entity with no translation group the translations are empty,
\* found without a panic and without looking up any page or section, and the
\* projection of the entity returns, its translations empty, whenever the
\* other keys it dereferences are held.
C8_NoGroupIsEmpty ==
    (op # "none" /\ ~HasGroup(Entities[arg])) =>
        /\ op \in {"find_all_pages", "find_all_sections"} =>
              /\ result.ok
              /\ result.val = <<>>
              /\ Count(result.log, {"pages.get", "get_page_by_key", "get_section_by_key",
                                    "get_section_path_by_key"}) = 0
        /\ op \in {"from_page", "from_page_basic", "from_section", "from_section_basic"} =>
              /\ Present => result.ok
              /\ result.ok => result.val.translations = <<>>

C8_Witness ==
    /\ op = "from_section"
    /\ ~HasGroup(RootSection)
    /\ result.ok
    /\ result.val.translations = <<>>
    /\ result.val.pages # <<>>
    /\ \E i \in DOMAIN result.val.pages : result.val.pages[i].translations # <<>>

\* C9: the pages of from_section(S, library) are, key by key in the stored
\* order, the views from_page_basic(get_page(k), Some(library)) of the child
\* pages: ancestors and translations from the library, no navigation.
C9_ChildPagesAreBasicViews ==
    (op = "from_section" /\ result.ok) =>
        /\ Len(result.val.pages) = Len(RootSection.pages)
        /\ \A i \in DOMAIN result.val.pages :
              /\ result.val.pages[i] =
                    from_page_basic(library.pages[RootSection.pages[i]], Some(library)).val
              /\ NavAbsent(result.val.pages[i])

C9_Witness ==
    /\ op = "from_section"
    /\ result.ok
    /\ RootSection.pages = <<2, 1>>
    /\ \A i \in DOMAIN result.val.pages :
          /\ SetSlots(library.pages[RootSection.pages[i]]) # {}
          /\ result.val.pages[i].ancestors # <<>>
          /\ result.val.pages[i].translations # <<>>

\* C10: from_section_basic has no pages, with the library or without; with
\* the library its view is that of from_section but for the pages; without,
\* ancestors, translations, subsections and includers are empty and the
\* library is not looked up.
C10_BasicSectionHasNoPages ==
    (op = "from_section_basic") =>
        /\ result.ok => result.val.pages = <<>>
        /\ lib_arg =>
              LET full == from_section(RootSection, library)
              IN  full.ok => /\ result.ok
                             /\ result.val = [full.val EXCEPT !.pages = <<>>]
        /\ ~lib_arg =>
              /\ result.ok
              /\ result.val.ancestors = <<>>
              /\ result.val.translations = <<>>
              /\ result.val.subsections = <<>>
              /\ result.val.includers = <<>>
              /\ result.log = <<>>

C10_Witness ==
    /\ op = "from_section_basic"
    /\ lib_arg
    /\ result.ok
    /\ from_section(RootSection, library).ok
    /\ RootSection.pages # <<>>
    /\ result.val.subsections # <<>>
    /\ result.val.includers # <<>>
    /\ result.val.subsections # result.val.includers
    /\ result.val.ancestors # <<>>
    /\ result.val.translations # <<>>

====
